---- MODULE Spec2Model ----
(***************************************************************************)
(* Model of package pokecache (src/pokecache/pokecache.go): a map of       *)
(* cacheEntry guarded by one sync.Mutex, the callers of Add and Get, and   *)
(* the ReapLoop goroutine that NewCache starts.  Time is counted in        *)
(* minutes.                                                                *)
(***************************************************************************)
EXTENDS Integers, Sequences, FiniteSets, TLC

\* ---- program constants -------------------------------------------------
\* 5*time.Minute of Reap (the age above which an entry is deleted)
TTL == 5
\* 5*time.Minute of ReapLoop (the argument of time.Sleep)
SweepInterval == 5

\* ---- bounds of the model -----------------------------------------------
\* the clock stops advancing at MaxTime
MaxTime == 14
\* the longest time the scheduler lets pass between the end of the
\* reaper's sleep and the end of the sweep that follows it
Slack == 1

\* the clock of the specification with fairness stops advancing at LiveTime
LiveTime == 11

\* the slack of the expiry upper bound: one late sweep that keeps the
\* entry and one late sweep that removes it
Epsilon == 2 * Slack

\* keys and payloads the callers pass; the empty key and the empty
\* payload are among them
Keys == {"", "a"}
Payloads == {<<>>, <<1>>}
\* goroutines that call Add and Get
Callers == {"c1", "c2"}

\* error values
NilErr == "nil"

\* a nil *string, and the params of a command typed without one
Nil == "<nil>"
NoParam == "<none>"

\* nextURL in init
LocationArea == "https://pokeapi.co/api/v2/location-area"
NoCmd == [cmd |-> "none", arg |-> NoParam, url |-> Nil]
ErrKeyNotFound == "key not found"

VARIABLES
    entries,    \* Cache.entries: a function from the keys present to cacheEntry
    mu,         \* Cache.mu: TRUE when locked
    now,        \* the clock read by time.Now and time.Since
    pc,         \* per caller: "idle", "body" (mutex held), "unlock" (about to return)
    call,       \* per caller: the call in progress [op, key, data]
    ret,        \* per caller: the values the call is about to return
    rpc,        \* the reaper goroutine: "sleep" (in time.Sleep or waiting for the mutex), "range" (in Reap)
    wakeAt,     \* the time at which the reaper's current time.Sleep ends
    todo,       \* the keys the reaper's range loop has yet to visit
    lastAdd,    \* history: per key, the payloads of the latest completed Add (none or one)
    overwritten,\* history: per key, the payload the latest Add overwrote with
                \* another one (none or one)
    reaped,     \* history: per key, "no", or how old the entry of the latest Add was
                \* when a sweep deleted it: "stale" (older than TTL) or "fresh"
    lastOp,     \* history: the latest Add or sweep to enter its critical section
    sinceSweep, \* history: no Add has run since the latest sweep ended
    lastAddAt,  \* history: per key present, the time of the latest Add (0 when absent)
    revived,    \* history: per key, the latest Add, run since the latest sweep
                \* ended, replaced an entry older than TTL
    waiting,    \* per caller: "no", or the method ("Add", "Get") it has called and
                \* whose c.mu.Lock() has not returned yet
    rpc2,       \* a ReapLoop started by a caller: "off", "sleep", "range"
    wakeAt2,    \* the time at which that loop's time.Sleep ends
    todo2,      \* the keys that loop's range has yet to visit
    stage,      \* the command loop: "prompt", "get" (a command is at pCache.Get),
                \* "fetch" (the command's http.Get has not returned yet)
    cur,        \* the command read last: [cmd, arg, url]
    cmdErr,     \* the error the last finished command returned
    nextURL,    \* api.NextURL
    prevURL,    \* api.PrevURL
    pDex,       \* pDex.entries: a function from the names present to the data
    fetches,    \* history: the http.Get calls the command read last has made
    processed,  \* history: the data the command read last handed to its process function
    again,      \* history: whether the command read last asks for the URL the one
                \* before it asked for, "afterOk" or "afterFail", or "no"
    caught      \* history: the names of the Pokemon a catch command has caught

vars == <<entries, mu, now, pc, call, ret, rpc, wakeAt, todo,
          lastAdd, overwritten, reaped, lastOp, sinceSweep, lastAddAt, revived,
          waiting, rpc2, wakeAt2, todo2,
          stage, cur, cmdErr, nextURL, prevURL, pDex, fetches, processed, again, caught>>

\* the variables that only some of the specifications use
loopVars == <<rpc2, wakeAt2, todo2>>
cliVars == <<stage, cur, cmdErr, nextURL, prevURL, pDex, fetches, processed, again, caught>>
ext == <<waiting, loopVars, cliVars>>

hist == <<lastAdd, overwritten, reaped, lastOp, sinceSweep, lastAddAt, revived>>

NoCall == [op |-> "none", key |-> "", data |-> <<>>]
NoRet == [data |-> <<>>, err |-> NilErr]
NoOp == [op |-> "none", key |-> "", data |-> <<>>]

\* ---- sync.Mutex --------------------------------------------------------
\* a Lock that does not wait for the mutex to be unlocked
LockNoWait == mu' = TRUE

\* Lock blocks until the mutex is unlocked, then locks it
Lock == mu = FALSE /\ mu' = TRUE

\* Unlock
Unlock == mu' = FALSE

\* ---- the map operations ------------------------------------------------
\* an Add that leaves the entry of a key already present as it is
AddEntryKeepOld(m, key, data, t) ==
    [k \in DOMAIN m \cup {key} |->
        IF k \in DOMAIN m THEN m[k] ELSE [createdAt |-> t, data |-> data]]

\* an Add whose struct literal leaves the data field out
AddEntryDropData(m, key, data, t) ==
    [k \in DOMAIN m \cup {key} |->
        IF k = key THEN [createdAt |-> t, data |-> <<>>] ELSE m[k]]

\* an Add that keeps the createdAt of the entry it replaces
AddEntryKeepStamp(m, key, data, t) ==
    [k \in DOMAIN m \cup {key} |->
        IF k = key
        THEN [createdAt |-> IF key \in DOMAIN m THEN m[key].createdAt ELSE t,
              data |-> data]
        ELSE m[k]]

\* an Add that assigns a new map holding the one entry
AddEntryOnly(m, key, data, t) ==
    [k \in {key} |-> [createdAt |-> t, data |-> data]]

\* c.entries[key] = cacheEntry{createdAt: time.Now(), data: data}
AddEntry(m, key, data, t) ==
    [k \in DOMAIN m \cup {key} |->
        IF k = key THEN [createdAt |-> t, data |-> data] ELSE m[k]]

\* a Get that returns the zero entry's data without looking at ok
LookupZero(m, key) ==
    [data |-> IF key \in DOMAIN m THEN m[key].data ELSE <<>>, err |-> NilErr]

\* a Get that treats an entry older than TTL as absent
LookupIfFresh(m, key) ==
    IF key \notin DOMAIN m \/ now - m[key].createdAt > TTL
    THEN [data |-> <<>>, err |-> ErrKeyNotFound]
    ELSE [data |-> m[key].data, err |-> NilErr]

\* entry, ok := c.entries[key]; the two return statements of Get.
\* A nil []byte is the empty sequence.
Lookup(m, key) ==
    IF key \notin DOMAIN m
    THEN [data |-> <<>>, err |-> ErrKeyNotFound]
    ELSE [data |-> m[key].data, err |-> NilErr]

\* >= in place of >
ExpiredGe(entry, t) == t - entry.createdAt >= TTL

\* time.Until in place of time.Since
ExpiredUntil(entry, t) == entry.createdAt - t > TTL

\* time.Since(entry.createdAt) > 5*time.Minute
Expired(entry, t) == t - entry.createdAt > TTL

\* a delete that clears the map
DeleteAll(m, key) == << >>

\* delete(c.entries, key)
Delete(m, key) == [k \in DOMAIN m \ {key} |-> m[k]]

\* ---- NewCache ----------------------------------------------------------
Init ==
    /\ entries = << >>
    /\ mu = FALSE
    /\ now = 0
    /\ pc = [t \in Callers |-> "idle"]
    /\ call = [t \in Callers |-> NoCall]
    /\ ret = [t \in Callers |-> NoRet]
    /\ rpc = "sleep"
    /\ wakeAt = SweepInterval
    /\ todo = {}
    /\ lastAdd = [k \in Keys |-> {}]
    /\ overwritten = [k \in Keys |-> {}]
    /\ reaped = [k \in Keys |-> "no"]
    /\ lastOp = NoOp
    /\ sinceSweep = FALSE
    /\ lastAddAt = [k \in Keys |-> 0]
    /\ revived = [k \in Keys |-> FALSE]
    /\ waiting = [t \in Callers |-> "no"]
    /\ rpc2 = "off"
    /\ wakeAt2 = 0
    /\ todo2 = {}
    /\ stage = "prompt"
    /\ cur = NoCmd
    /\ cmdErr = NilErr
    /\ nextURL = LocationArea
    /\ prevURL = Nil
    /\ pDex = << >>
    /\ fetches = 0
    /\ processed = ""
    /\ again = "no"
    /\ caught = {}

\* ---- Cache.Add ---------------------------------------------------------
\* a caller calls Add(key, data) and its c.mu.Lock() returns; a caller
\* that waits for the mutex is one whose AddLock is not enabled
AddLock(t) ==
    /\ pc[t] = "idle"
    /\ Lock
    /\ \E k \in Keys, d \in Payloads :
          call' = [call EXCEPT ![t] = [op |-> "Add", key |-> k, data |-> d]]
    /\ pc' = [pc EXCEPT ![t] = "body"]
    /\ UNCHANGED <<entries, now, ret, rpc, wakeAt, todo, hist>>

AddBody(t) ==
    /\ pc[t] = "body" /\ call[t].op = "Add"
    /\ entries' = AddEntry(entries, call[t].key, call[t].data, now)
    /\ ret' = [ret EXCEPT ![t] = [data |-> <<>>, err |-> NilErr]]
    /\ pc' = [pc EXCEPT ![t] = "unlock"]
    /\ lastAdd' = [lastAdd EXCEPT ![call[t].key] = {call[t].data}]
    /\ overwritten' = [overwritten EXCEPT ![call[t].key] =
                          IF /\ call[t].key \in DOMAIN entries
                             /\ entries[call[t].key].data # call[t].data
                          THEN {entries[call[t].key].data} ELSE {}]
    /\ reaped' = [reaped EXCEPT ![call[t].key] = "no"]
    /\ lastOp' = call[t]
    /\ sinceSweep' = FALSE
    /\ lastAddAt' = [lastAddAt EXCEPT ![call[t].key] = now]
    /\ revived' = [revived EXCEPT ![call[t].key] =
                      /\ call[t].key \in DOMAIN entries
                      /\ now - entries[call[t].key].createdAt > TTL]
    /\ UNCHANGED <<mu, now, call, rpc, wakeAt, todo>>

AddUnlock(t) ==
    /\ pc[t] = "unlock" /\ call[t].op = "Add"
    /\ Unlock
    /\ pc' = [pc EXCEPT ![t] = "idle"]
    /\ call' = [call EXCEPT ![t] = NoCall]
    /\ ret' = [ret EXCEPT ![t] = NoRet]
    /\ UNCHANGED <<entries, now, rpc, wakeAt, todo, hist>>

\* ---- Cache.Get ---------------------------------------------------------
\* a caller calls Get(key) and its c.mu.Lock() returns
GetLock(t) ==
    /\ pc[t] = "idle"
    /\ Lock
    /\ \E k \in Keys :
          call' = [call EXCEPT ![t] = [op |-> "Get", key |-> k, data |-> <<>>]]
    /\ pc' = [pc EXCEPT ![t] = "body"]
    /\ UNCHANGED <<entries, now, ret, rpc, wakeAt, todo, hist>>

\* a Get that stamps the entry it reads with the current time
GetBodyRefresh(t) ==
    /\ pc[t] = "body" /\ call[t].op = "Get"
    /\ ret' = [ret EXCEPT ![t] = Lookup(entries, call[t].key)]
    /\ entries' = [k \in DOMAIN entries |->
                      IF k = call[t].key
                      THEN [createdAt |-> now, data |-> entries[k].data]
                      ELSE entries[k]]
    /\ pc' = [pc EXCEPT ![t] = "unlock"]
    /\ UNCHANGED <<mu, now, call, rpc, wakeAt, todo, hist>>

GetBody(t) ==
    /\ pc[t] = "body" /\ call[t].op = "Get"
    /\ ret' = [ret EXCEPT ![t] = Lookup(entries, call[t].key)]
    /\ pc' = [pc EXCEPT ![t] = "unlock"]
    /\ UNCHANGED <<entries, mu, now, call, rpc, wakeAt, todo, hist>>

\* a Get without the defer: the miss returns with the mutex locked
GetUnlockOnHit(t) ==
    /\ pc[t] = "unlock" /\ call[t].op = "Get"
    /\ mu' = (ret[t].err # NilErr)
    /\ pc' = [pc EXCEPT ![t] = "idle"]
    /\ call' = [call EXCEPT ![t] = NoCall]
    /\ ret' = [ret EXCEPT ![t] = NoRet]
    /\ UNCHANGED <<entries, now, rpc, wakeAt, todo, hist>>

GetUnlock(t) ==
    /\ pc[t] = "unlock" /\ call[t].op = "Get"
    /\ Unlock
    /\ pc' = [pc EXCEPT ![t] = "idle"]
    /\ call' = [call EXCEPT ![t] = NoCall]
    /\ ret' = [ret EXCEPT ![t] = NoRet]
    /\ UNCHANGED <<entries, now, rpc, wakeAt, todo, hist>>

\* ---- Cache.ReapLoop and Cache.Reap -------------------------------------
\* time.Sleep(5 * time.Minute) has returned, c.Reap() is called and its
\* c.mu.Lock() returns; the range loop starts over the keys present
ReapLock ==
    /\ rpc = "sleep"
    /\ now >= wakeAt
    /\ Lock
    /\ rpc' = "range"
    /\ todo' = DOMAIN entries
    /\ lastOp' = [op |-> "Reap", key |-> "", data |-> <<>>]
    /\ UNCHANGED <<entries, now, pc, call, ret, wakeAt,
                   lastAdd, overwritten, reaped, sinceSweep, lastAddAt, revived>>

\* one iteration of the range loop, in the order the map yields the keys;
\* a key deleted before the loop reaches it is not yielded
ReapRange ==
    /\ rpc = "range"
    /\ \E k \in todo :
          /\ IF Expired(entries[k], now)
             THEN entries' = Delete(entries, k)
             ELSE UNCHANGED entries
          /\ todo' = (todo \ {k}) \cap DOMAIN entries'
          /\ reaped' = [x \in Keys |->
                IF x \in DOMAIN entries /\ x \notin DOMAIN entries'
                THEN IF now - entries[x].createdAt > TTL THEN "stale" ELSE "fresh"
                ELSE reaped[x]]
          /\ overwritten' = [x \in Keys |->
                IF x \in DOMAIN entries' THEN overwritten[x] ELSE {}]
          /\ lastAddAt' = [x \in Keys |->
                IF x \in DOMAIN entries' THEN lastAddAt[x] ELSE 0]
          /\ revived' = [x \in Keys |->
                IF x \in DOMAIN entries' THEN revived[x] ELSE FALSE]
    /\ UNCHANGED <<mu, now, pc, call, ret, rpc, wakeAt, lastAdd, lastOp, sinceSweep>>

\* a ReapLoop without the for: it returns after the first sweep
ReapUnlockOnce ==
    /\ rpc = "range"
    /\ todo = {}
    /\ Unlock
    /\ rpc' = "returned"
    /\ sinceSweep' = TRUE
    /\ revived' = [k \in Keys |-> FALSE]
    /\ UNCHANGED <<entries, now, pc, call, ret, todo, wakeAt, lastAdd, overwritten, reaped,
                   lastOp, lastAddAt>>

\* the range loop is over: the deferred c.mu.Unlock(), Reap returns and
\* ReapLoop sleeps again
ReapUnlock ==
    /\ rpc = "range"
    /\ todo = {}
    /\ Unlock
    /\ rpc' = "sleep"
    /\ wakeAt' = now + SweepInterval
    /\ sinceSweep' = TRUE
    /\ revived' = [k \in Keys |-> FALSE]
    /\ UNCHANGED <<entries, now, pc, call, ret, todo, lastAdd, overwritten, reaped, lastOp,
                   lastAddAt>>

\* ---- the clock ---------------------------------------------------------
\* A minute passes.  The scheduler lets the reaper finish its sweep at
\* most Slack after its sleep ended.
Tick ==
    /\ now < MaxTime
    /\ now < wakeAt + Slack
    /\ now' = now + 1
    /\ UNCHANGED <<entries, mu, pc, call, ret, rpc, wakeAt, todo, hist>>

\* the cache, two callers of Add and Get, and the reaper
Next ==
    \/ \E t \in Callers : AddLock(t) /\ UNCHANGED ext
    \/ \E t \in Callers : AddBody(t) /\ UNCHANGED ext
    \/ \E t \in Callers : AddUnlock(t) /\ UNCHANGED ext
    \/ \E t \in Callers : GetLock(t) /\ UNCHANGED ext
    \/ \E t \in Callers : GetBody(t) /\ UNCHANGED ext
    \/ \E t \in Callers : GetUnlock(t) /\ UNCHANGED ext
    \/ ReapLock /\ UNCHANGED ext
    \/ ReapRange /\ UNCHANGED ext
    \/ ReapUnlock /\ UNCHANGED ext
    \/ Tick /\ UNCHANGED ext

Spec == Init /\ [][Next]_vars

\* ---- callers that wait for the mutex, under fair scheduling -------------
\* the key and the payload of the calls of this specification
LiveKey == "a"
LiveData == <<1>>

\* caller t calls Add or Get and blocks in c.mu.Lock()
AddCall(t) ==
    /\ pc[t] = "idle" /\ waiting[t] = "no"
    /\ waiting' = [waiting EXCEPT ![t] = "Add"]
    /\ UNCHANGED <<entries, mu, now, pc, call, ret, rpc, wakeAt, todo, hist, loopVars, cliVars>>

GetCall(t) ==
    /\ pc[t] = "idle" /\ waiting[t] = "no"
    /\ waiting' = [waiting EXCEPT ![t] = "Get"]
    /\ UNCHANGED <<entries, mu, now, pc, call, ret, rpc, wakeAt, todo, hist, loopVars, cliVars>>

\* the c.mu.Lock() of a waiting caller returns
AddLockWaited(t) ==
    /\ waiting[t] = "Add"
    /\ AddLock(t)
    /\ call'[t].key = LiveKey /\ call'[t].data = LiveData
    /\ waiting' = [waiting EXCEPT ![t] = "no"]
    /\ UNCHANGED <<loopVars, cliVars>>

GetLockWaited(t) ==
    /\ waiting[t] = "Get"
    /\ GetLock(t)
    /\ call'[t].key = LiveKey
    /\ waiting' = [waiting EXCEPT ![t] = "no"]
    /\ UNCHANGED <<loopVars, cliVars>>

\* a minute passes, up to LiveTime
TickLive == now < LiveTime /\ Tick /\ UNCHANGED ext

NextLive ==
    \/ \E t \in Callers : AddCall(t)
    \/ \E t \in Callers : GetCall(t)
    \/ \E t \in Callers : AddLockWaited(t)
    \/ \E t \in Callers : GetLockWaited(t)
    \/ \E t \in Callers : AddBody(t) /\ UNCHANGED ext
    \/ \E t \in Callers : AddUnlock(t) /\ UNCHANGED ext
    \/ \E t \in Callers : GetBody(t) /\ UNCHANGED ext
    \/ \E t \in Callers : GetUnlock(t) /\ UNCHANGED ext
    \/ ReapLock /\ UNCHANGED ext
    \/ ReapRange /\ UNCHANGED ext
    \/ ReapUnlock /\ UNCHANGED ext
    \/ TickLive

\* The goroutine inside the mutex keeps running (weak fairness of the
\* steps under the mutex), a goroutine blocked in Lock gets the mutex
\* (sync.Mutex hands it to a waiter that has waited long: strong fairness
\* of the Lock steps), and time passes.
FairSpec ==
    /\ Init /\ [][NextLive]_vars
    /\ \A t \in Callers :
          /\ SF_vars(AddLockWaited(t)) /\ SF_vars(GetLockWaited(t))
          /\ WF_vars(AddBody(t) /\ UNCHANGED ext) /\ WF_vars(AddUnlock(t) /\ UNCHANGED ext)
          /\ WF_vars(GetBody(t) /\ UNCHANGED ext) /\ WF_vars(GetUnlock(t) /\ UNCHANGED ext)
    /\ SF_vars(ReapLock /\ UNCHANGED ext)
    /\ WF_vars(ReapRange /\ UNCHANGED ext)
    /\ WF_vars(ReapUnlock /\ UNCHANGED ext)
    /\ WF_vars(TickLive)

\* ---- ReapLoop called through the exported method ------------------------
\* ReapLoop and Reap are exported methods of Cache: a caller of the
\* package can run go c.ReapLoop() on a cache that NewCache returned.
ReapLoopCall(t) ==
    /\ pc[t] = "idle"
    /\ rpc2 = "off"
    /\ rpc2' = "sleep"
    /\ wakeAt2' = now + SweepInterval
    /\ UNCHANGED <<entries, mu, now, pc, call, ret, rpc, wakeAt, todo, hist,
                   waiting, cliVars, todo2>>

\* the steps of Reap, run by that loop
ReapLock2 ==
    /\ rpc2 = "sleep"
    /\ now >= wakeAt2
    /\ Lock
    /\ rpc2' = "range"
    /\ todo2' = DOMAIN entries
    /\ lastOp' = [op |-> "Reap", key |-> "", data |-> <<>>]
    /\ UNCHANGED <<entries, now, pc, call, ret, rpc, wakeAt, todo, wakeAt2, waiting, cliVars,
                   lastAdd, overwritten, reaped, sinceSweep, lastAddAt, revived>>

ReapRange2 ==
    /\ rpc2 = "range"
    /\ \E k \in todo2 :
          /\ IF Expired(entries[k], now)
             THEN entries' = Delete(entries, k)
             ELSE UNCHANGED entries
          /\ todo2' = (todo2 \ {k}) \cap DOMAIN entries'
          /\ reaped' = [x \in Keys |->
                IF x \in DOMAIN entries /\ x \notin DOMAIN entries'
                THEN IF now - entries[x].createdAt > TTL THEN "stale" ELSE "fresh"
                ELSE reaped[x]]
          /\ overwritten' = [x \in Keys |->
                IF x \in DOMAIN entries' THEN overwritten[x] ELSE {}]
          /\ lastAddAt' = [x \in Keys |->
                IF x \in DOMAIN entries' THEN lastAddAt[x] ELSE 0]
          /\ revived' = [x \in Keys |->
                IF x \in DOMAIN entries' THEN revived[x] ELSE FALSE]
    /\ UNCHANGED <<mu, now, pc, call, ret, rpc, wakeAt, todo, rpc2, wakeAt2, waiting, cliVars,
                   lastAdd, lastOp, sinceSweep>>

ReapUnlock2 ==
    /\ rpc2 = "range"
    /\ todo2 = {}
    /\ Unlock
    /\ rpc2' = "sleep"
    /\ wakeAt2' = now + SweepInterval
    /\ sinceSweep' = TRUE
    /\ revived' = [k \in Keys |-> FALSE]
    /\ UNCHANGED <<entries, now, pc, call, ret, rpc, wakeAt, todo, todo2, waiting, cliVars,
                   lastAdd, overwritten, reaped, lastOp, lastAddAt>>

\* the clock's bound while two loops run
LoopTime == 7

\* a minute passes, up to LoopTime; neither loop's sweep is later than Slack
TickLoops ==
    /\ now < LoopTime
    /\ rpc2 # "off" => now < wakeAt2 + Slack
    /\ Tick
    /\ UNCHANGED ext

NextExported ==
    \/ \E t \in Callers : ReapLoopCall(t)
    \/ ReapLock2
    \/ ReapRange2
    \/ ReapUnlock2
    \/ \E t \in Callers : AddLock(t) /\ UNCHANGED ext
    \/ \E t \in Callers : AddBody(t) /\ UNCHANGED ext
    \/ \E t \in Callers : AddUnlock(t) /\ UNCHANGED ext
    \/ \E t \in Callers : GetLock(t) /\ UNCHANGED ext
    \/ \E t \in Callers : GetBody(t) /\ UNCHANGED ext
    \/ \E t \in Callers : GetUnlock(t) /\ UNCHANGED ext
    \/ ReapLock /\ UNCHANGED ext
    \/ ReapRange /\ UNCHANGED ext
    \/ ReapUnlock /\ UNCHANGED ext
    \/ TickLoops

ExportedSpec == Init /\ [][NextExported]_vars

\* ---- the command loop (package main) -----------------------------------
\* The remote API, as the commands see it: two pages of location areas,
\* one location area, and one Pokemon that answers to its name and its id.
Page1URL == LocationArea
Page2URL == LocationArea \o "?offset=20&limit=20"
ExploreURL(arg) == "https://pokeapi.co/api/v2/location-area/" \o arg
CatchURL(arg) == "https://pokeapi.co/api/v2/pokemon/" \o arg

Locations == {"1"}
Pokemons == {"pikachu", "25"}

Page1JSON == "{next: page2, previous: null}"
Page2JSON == "{next: null, previous: page1}"
AreaJSON == "{id: 1, name: canalave-city-area}"
PikachuJSON == "{id: 25, name: pikachu, base_experience: 112}"

\* the body the API sends for a URL
Body(url) ==
    IF url = Page1URL THEN Page1JSON
    ELSE IF url = Page2URL THEN Page2JSON
    ELSE IF url \in {ExploreURL(a) : a \in Locations} THEN AreaJSON
    ELSE PikachuJSON

\* json.Unmarshal into PokeLoc and into Pokemon: the fields the commands read
UnmarshalPokeLoc(data) ==
    IF data = Page1JSON THEN [Next |-> Page2URL, Previous |-> Nil]
    ELSE [Next |-> Nil, Previous |-> Page1URL]

UnmarshalPokemon(data) == [ID |-> 25, Name |-> "pikachu", BaseExperience |-> 112]

\* rand.Intn(10) and the product an escape needs to exceed
DiceSides == 10
EscapeAbove == 400

\* the ways an http.Get can end
ErrFetch == "error fetching data"
ErrRead == "error reading response"
ErrNotJSON == "response is not JSON"
FetchErrs == {ErrFetch, ErrRead, ErrNotJSON}
ErrNoParam == "no name provided"

cacheIdle == <<pc, call, ret, hist, waiting, loopVars>>

\* whether a command for url repeats the request of the one before it
Again(url) ==
    IF url = Nil \/ cur.url # url THEN "no"
    ELSE IF cmdErr = NilErr THEN "afterOk"
    ELSE IF cmdErr \in FetchErrs THEN "afterFail"
    ELSE "no"

\* a command has its URL and goes on to pCache.Get
StartGet(cmd, arg, url) ==
    /\ stage' = "get"
    /\ cur' = [cmd |-> cmd, arg |-> arg, url |-> url]
    /\ again' = Again(url)
    /\ fetches' = 0
    /\ processed' = ""
    /\ UNCHANGED <<cmdErr, nextURL, prevURL, pDex, caught>>

\* a command returns before it has a URL
ReturnEarly(cmd, arg, e) ==
    /\ cur' = [cmd |-> cmd, arg |-> arg, url |-> Nil]
    /\ cmdErr' = e
    /\ again' = "no"
    /\ fetches' = 0
    /\ processed' = ""
    /\ UNCHANGED <<stage, nextURL, prevURL, pDex, caught>>

\* commandMap up to the cache check; dir is "next" (map) or "prev" (mapb)
commandMap(dir) ==
    /\ stage = "prompt"
    /\ LET url == IF dir = "next" THEN nextURL ELSE prevURL
           cmd == IF dir = "next" THEN "map" ELSE "mapb"
       IN  IF url = Nil
           THEN ReturnEarly(cmd, NoParam, NilErr)
           ELSE StartGet(cmd, NoParam, url)
    /\ UNCHANGED <<entries, mu, now, rpc, wakeAt, todo, cacheIdle>>

\* commandExplore up to the cache check
commandExplore(arg) ==
    /\ stage = "prompt"
    /\ IF arg = NoParam
       THEN ReturnEarly("explore", arg, ErrNoParam)
       ELSE StartGet("explore", arg, ExploreURL(arg))
    /\ UNCHANGED <<entries, mu, now, rpc, wakeAt, todo, cacheIdle>>

\* commandCatch up to the cache check
commandCatch(arg) ==
    /\ stage = "prompt"
    /\ IF arg = NoParam
       THEN ReturnEarly("catch", arg, ErrNoParam)
       ELSE StartGet("catch", arg, CatchURL(arg))
    /\ UNCHANGED <<entries, mu, now, rpc, wakeAt, todo, cacheIdle>>

\* processResponse
processResponse(data) ==
    /\ nextURL' = UnmarshalPokeLoc(data).Next
    /\ prevURL' = UnmarshalPokeLoc(data).Previous
    /\ UNCHANGED <<pDex, caught>>

\* processExplore only prints
processExplore(data) == UNCHANGED <<nextURL, prevURL, pDex, caught>>

\* processCatch; pDex.Add also stamps the entry with a time no command reads
processCatch(data) ==
    /\ \E dice \in 0 .. DiceSides - 1 :
          IF dice * UnmarshalPokemon(data).BaseExperience > EscapeAbove
          THEN UNCHANGED <<pDex, caught>>
          ELSE /\ pDex' = [k \in DOMAIN pDex \cup {UnmarshalPokemon(data).Name} |->
                            IF k = UnmarshalPokemon(data).Name THEN data ELSE pDex[k]]
               /\ caught' = caught \cup {UnmarshalPokemon(data).Name}
    /\ UNCHANGED <<nextURL, prevURL>>

\* the command hands data to its process function and returns nil
Process(data) ==
    /\ processed' = data
    /\ cmdErr' = NilErr
    /\ stage' = "prompt"
    /\ \/ cur.cmd \in {"map", "mapb"} /\ processResponse(data)
       \/ cur.cmd = "explore" /\ processExplore(data)
       \/ cur.cmd = "catch" /\ processCatch(data)

\* data, err := pCache.Get(url): on a hit the command processes data and
\* returns; on a miss it calls http.Get.  Get holds the mutex from Lock to
\* the deferred Unlock, so it runs when the mutex is free.
CacheGet ==
    /\ stage = "get"
    /\ mu = FALSE
    /\ IF Lookup(entries, cur.url).err = NilErr
       THEN /\ Process(Lookup(entries, cur.url).data)
            /\ UNCHANGED fetches
       ELSE /\ stage' = "fetch"
            /\ fetches' = fetches + 1
            /\ UNCHANGED <<processed, cmdErr, nextURL, prevURL, pDex, caught>>
    /\ UNCHANGED <<cur, again, entries, mu, now, rpc, wakeAt, todo, cacheIdle>>

\* a response cached before its Content-Type is checked
FetchFailsCached(e) ==
    /\ stage = "fetch"
    /\ e = ErrNotJSON => mu = FALSE
    /\ stage' = "prompt"
    /\ cmdErr' = e
    /\ entries' = IF e = ErrNotJSON
                  THEN AddEntry(entries, cur.url, Body(cur.url), now)
                  ELSE entries
    /\ UNCHANGED <<cur, again, fetches, processed, nextURL, prevURL, pDex, caught>>
    /\ UNCHANGED <<mu, now, rpc, wakeAt, todo, cacheIdle>>

\* http.Get fails, or io.ReadAll fails, or the Content-Type is not JSON
FetchFails(e) ==
    /\ stage = "fetch"
    /\ stage' = "prompt"
    /\ cmdErr' = e
    /\ UNCHANGED <<cur, again, fetches, processed, nextURL, prevURL, pDex, caught>>
    /\ UNCHANGED <<entries, mu, now, rpc, wakeAt, todo, cacheIdle>>

\* a response processed without being cached
FetchOKNoAdd ==
    /\ stage = "fetch"
    /\ mu = FALSE
    /\ Process(Body(cur.url))
    /\ UNCHANGED <<cur, again, fetches, entries, mu, now, rpc, wakeAt, todo, cacheIdle>>

\* the response is JSON: pCache.Add(url, body), which runs when the mutex
\* is free, then the process function
FetchOK ==
    /\ stage = "fetch"
    /\ mu = FALSE
    /\ entries' = AddEntry(entries, cur.url, Body(cur.url), now)
    /\ Process(Body(cur.url))
    /\ UNCHANGED <<cur, again, fetches, mu, now, rpc, wakeAt, todo, cacheIdle>>

\* commandInspect
commandInspect(arg) ==
    /\ stage = "prompt"
    /\ cur' = [cmd |-> "inspect", arg |-> arg, url |-> Nil]
    /\ again' = "no"
    /\ fetches' = 0
    /\ IF arg = NoParam
       THEN cmdErr' = ErrNoParam /\ processed' = ""
       ELSE IF arg \in DOMAIN pDex
            THEN cmdErr' = NilErr /\ processed' = pDex[arg]
            ELSE cmdErr' = ErrKeyNotFound /\ processed' = ""
    /\ UNCHANGED <<stage, nextURL, prevURL, pDex, caught>>
    /\ UNCHANGED <<entries, mu, now, rpc, wakeAt, todo, cacheIdle>>

\* Reap from the first iteration of its range loop to the deferred Unlock,
\* and the loop's next time.Sleep, in one step
ReapSweep ==
    /\ rpc = "range"
    /\ entries' = [k \in {x \in DOMAIN entries : ~Expired(entries[x], now)} |-> entries[k]]
    /\ todo' = {}
    /\ Unlock
    /\ rpc' = "sleep"
    /\ wakeAt' = now + SweepInterval
    /\ reaped' = [x \in Keys |->
          IF x \in DOMAIN entries /\ x \notin DOMAIN entries' THEN "stale" ELSE reaped[x]]
    /\ overwritten' = [x \in Keys |-> IF x \in DOMAIN entries' THEN overwritten[x] ELSE {}]
    /\ lastAddAt' = [x \in Keys |-> IF x \in DOMAIN entries' THEN lastAddAt[x] ELSE 0]
    /\ revived' = [x \in Keys |-> FALSE]
    /\ sinceSweep' = TRUE
    /\ UNCHANGED <<now, pc, call, ret, lastAdd, lastOp, ext>>

\* the clock's bound while the command loop runs
CliTime == 6

TickCli == now < CliTime /\ Tick /\ UNCHANGED ext

\* the commands that go through the cache, the cache and its reaper
NextCli ==
    \/ commandMap("next")
    \/ commandMap("prev")
    \/ \E arg \in Locations : commandExplore(arg)
    \/ commandCatch("pikachu")
    \/ CacheGet
    \/ \E e \in FetchErrs : FetchFails(e)
    \/ FetchOK
    \/ ReapLock /\ UNCHANGED ext
    \/ ReapSweep
    \/ TickCli

CliSpec == Init /\ [][NextCli]_vars

\* catch and inspect, the cache and its reaper
NextDex ==
    \/ \E arg \in Pokemons \cup {NoParam} : commandCatch(arg)
    \/ \E arg \in Pokemons \cup {NoParam} : commandInspect(arg)
    \/ CacheGet
    \/ \E e \in FetchErrs : FetchFails(e)
    \/ FetchOK
    \/ ReapLock /\ UNCHANGED ext
    \/ ReapSweep
    \/ TickCli

DexSpec == Init /\ [][NextDex]_vars

\* ---- notions the properties share ---------------------------------------
\* the values a Get returns on a hit and on a miss
Found(p) == [data |-> p, err |-> NilErr]
NotFound == [data |-> <<>>, err |-> ErrKeyNotFound]

\* caller t has run the body of Get and is about to return ret[t]
GetDone(t) == pc[t] = "unlock" /\ call[t].op = "Get"

\* caller t has run the body of Add and is about to return
AddDone(t) == pc[t] = "unlock" /\ call[t].op = "Add"

\* now - createdAt
Age(k) == now - entries[k].createdAt

\* a sweep has run to its end
SweepEnded == wakeAt > SweepInterval

TypeOK ==
    /\ DOMAIN entries \subseteq Keys
    /\ \A k \in DOMAIN entries :
          entries[k].createdAt \in 0..now /\ entries[k].data \in Payloads
    /\ mu \in BOOLEAN
    /\ now \in 0..MaxTime
    /\ rpc \in {"sleep", "range"}
    /\ todo \subseteq DOMAIN entries

\* ---- the claims --------------------------------------------------------

\* C1 (round trip): a Get(k) that runs when the latest Add or sweep to
\* have run is Add(k, p) returns p and no error, whatever ran before the Add.
RoundTrip ==
    \A t \in Callers :
        (GetDone(t) /\ lastOp.op = "Add" /\ lastOp.key = call[t].key)
            => ret[t] = Found(lastOp.data)

\* an Add of a non-empty payload under the empty key, read back, in a
\* cache that has already been swept and held another payload under that key
RoundTripWitness ==
    \E t \in Callers :
        /\ GetDone(t) /\ call[t].key = ""
        /\ lastOp = [op |-> "Add", key |-> "", data |-> <<1>>]
        /\ ret[t] = Found(<<1>>)
        /\ overwritten[""] = {<< >>}
        /\ SweepEnded

\* C2 (replacement): after Add(k, p1) then Add(k, p2) with p1 # p2, and
\* no sweep having deleted the entry since, Get(k) returns p2 and not p1.
Replacement ==
    \A t \in Callers :
        (GetDone(t) /\ overwritten[call[t].key] # {})
            => /\ ret[t].err = NilErr
               /\ lastAdd[call[t].key] = {ret[t].data}
               /\ ret[t].data \notin overwritten[call[t].key]

ReplacementWitness ==
    \E t \in Callers :
        /\ GetDone(t)
        /\ overwritten[call[t].key] = {<<1>>}
        /\ ret[t] = Found(<< >>)

\* C3 (miss on unknown key): a Get(k) on a cache on which no Add(k, ...)
\* has run returns the key-not-found error and no payload.
MissOnUnknownKey ==
    \A t \in Callers :
        (GetDone(t) /\ lastAdd[call[t].key] = {}) => ret[t] = NotFound

\* a miss on a key never added, while another key is present and a sweep
\* has run
MissOnUnknownKeyWitness ==
    \E t \in Callers :
        /\ GetDone(t) /\ lastAdd[call[t].key] = {}
        /\ ret[t] = NotFound
        /\ DOMAIN entries # {}
        /\ SweepEnded

\* C4 (expiry lower bound): a step removes an entry only when its age is
\* strictly greater than TTL, and a Get of a key whose entry is younger
\* than TTL returns the entry's payload.
ExpiryLowerBound ==
    [][\A k \in DOMAIN entries :
          /\ k \notin DOMAIN entries' => Age(k) > TTL
          /\ Age(k) < TTL =>
                \A t \in Callers :
                    (pc[t] = "body" /\ call[t] = [op |-> "Get", key |-> k, data |-> << >>]
                        /\ pc'[t] = "unlock")
                    => ret'[t] = Found(entries[k].data)]_vars

\* a Get returns an entry that is a minute short of TTL and that a sweep
\* has visited and kept
ExpiryLowerBoundWitness ==
    \E t \in Callers :
        /\ GetDone(t) /\ call[t].key \in DOMAIN entries
        /\ Age(call[t].key) = TTL - 1
        /\ ret[t] = Found(entries[call[t].key].data)
        /\ SweepEnded
        /\ entries[call[t].key].createdAt < wakeAt - SweepInterval

\* C5 (expiry upper bound): with the reaper running, no entry is present
\* more than TTL + SweepInterval + Epsilon after its Add, and a Get that
\* late returns key-not-found.
ExpiryUpperBound ==
    /\ \A k \in DOMAIN entries : Age(k) <= TTL + SweepInterval + Epsilon
    /\ \A t \in Callers :
          (GetDone(t) /\ ret[t].err = NilErr)
              => /\ call[t].key \in DOMAIN entries
                 /\ Age(call[t].key) <= TTL + SweepInterval + Epsilon

\* an entry that a sweep kept (its age was at most TTL then) has reached
\* the bound
ExpiryUpperBoundWitness ==
    \E k \in DOMAIN entries :
        /\ Age(k) = TTL + SweepInterval + Epsilon
        /\ SweepEnded

\* C6 (linearizability): at most one of the callers and the reaper is
\* inside the section guarded by the mutex, no caller is inside during a
\* sweep, and the effect of the operation inside is whole: the entry an
\* Add wrote and the result a Get read are those of the map as it is.
Linearizable ==
    /\ Cardinality({t \in Callers : pc[t] # "idle"})
          + (IF rpc = "range" THEN 1 ELSE 0) = (IF mu THEN 1 ELSE 0)
    /\ rpc = "range" => \A t \in Callers : pc[t] = "idle"
    /\ \A t \in Callers :
          AddDone(t) => /\ call[t].key \in DOMAIN entries
                        /\ entries[call[t].key].data = call[t].data
    /\ \A t \in Callers : GetDone(t) => ret[t] = Lookup(entries, call[t].key)

\* a sweep that has deleted one entry and has another key still to visit
LinearizableWitness ==
    /\ rpc = "range" /\ todo # {}
    /\ \E k \in Keys : reaped[k] = "stale" /\ k \notin DOMAIN entries

\* C7 (Add visibility): once an Add(k, ...) has run, a Get(k) returns the
\* payload of the latest Add(k, ...), or key-not-found when a sweep deleted
\* that Add's entry at an age above TTL.
AddVisibility ==
    \A t \in Callers :
        (GetDone(t) /\ lastAdd[call[t].key] # {})
            => \/ ret[t].err = NilErr /\ lastAdd[call[t].key] = {ret[t].data}
               \/ ret[t] = NotFound /\ reaped[call[t].key] = "stale"

\* a Get misses a key that was added and then reaped, while the other key,
\* added later, is present
AddVisibilityWitness ==
    \E t \in Callers :
        /\ GetDone(t) /\ lastAdd[call[t].key] # {}
        /\ ret[t] = NotFound
        /\ DOMAIN entries # {}

\* C8 (concurrency safety): no write is lost and no value is torn: every
\* key added and not deleted by a sweep holds the payload of its latest
\* Add, a sweep deletes no entry younger than TTL, every entry is a whole
\* payload with a timestamp of the past, and a Get returns key-not-found
\* or the payload of an Add of its key.
ConcurrencySafety ==
    /\ \A k \in Keys :
          /\ (lastAdd[k] # {} /\ reaped[k] = "no")
                => k \in DOMAIN entries /\ lastAdd[k] = {entries[k].data}
          /\ reaped[k] # "fresh"
          /\ k \in DOMAIN entries
                => /\ entries[k].data \in Payloads
                   /\ entries[k].createdAt \in 0..now
                   /\ reaped[k] = "no"
    /\ \A t \in Callers :
          GetDone(t) => \/ ret[t] = NotFound
                        \/ ret[t].err = NilErr /\ ret[t].data \in lastAdd[call[t].key]

\* both keys written with different payloads, one caller reading one of
\* them back while holding the mutex
ConcurrencySafetyWitness ==
    \E t \in Callers :
        /\ GetDone(t) /\ ret[t].err = NilErr
        /\ DOMAIN entries = Keys
        /\ entries[""].data # entries["a"].data

\* C9 (Get is read-only): no step of a Get, hit or miss, changes the
\* mapping; keys, payloads and createdAt stay as they are.
GetReadOnly ==
    [][\A t \in Callers :
          (call[t].op = "Get" \/ call'[t].op = "Get") => entries' = entries]_vars

\* a hit on an entry older than TTL, whose createdAt is still that of
\* its Add
GetReadOnlyWitness ==
    \E t \in Callers :
        /\ GetDone(t) /\ ret[t].err = NilErr
        /\ entries[call[t].key].createdAt < now
        /\ Age(call[t].key) > TTL

\* C10 as stated (reaper idempotence): with no Add since the latest sweep
\* ended, a later sweep leaves the mapping as that sweep left it.
ReapIdempotentAsStated ==
    [][(sinceSweep /\ rpc = "range") => entries' = entries]_vars

\* C10 amended: with no Add since the latest sweep ended, a later sweep
\* changes the mapping only by deleting entries whose age has come to
\* exceed TTL; it leaves every entry of age at most TTL, and so a mapping
\* without an entry older than TTL, exactly as it was.
ReapIdempotentWhileFresh ==
    [][(sinceSweep /\ rpc = "range")
          => /\ DOMAIN entries' \subseteq DOMAIN entries
             /\ \A k \in DOMAIN entries :
                   IF k \in DOMAIN entries'
                   THEN entries'[k] = entries[k]
                   ELSE Age(k) > TTL]_vars

\* a sweep that followed another with no Add between has visited every
\* key and kept an entry
ReapIdempotentWitness ==
    /\ sinceSweep /\ rpc = "range" /\ todo = {}
    /\ DOMAIN entries # {}

\* C12 (age reset on replacement): the mapping holds one entry per key,
\* whose createdAt is the time of the latest Add of the key, first or
\* replacing; a step removes an entry only when more than TTL has passed
\* since that latest Add, however old the entry it replaced was.
AgeReset ==
    [][/\ \A k \in DOMAIN entries' : entries'[k].createdAt = lastAddAt'[k]
       /\ \A k \in DOMAIN entries :
             k \notin DOMAIN entries' => now - lastAddAt[k] > TTL]_vars

\* a sweep has visited and kept a key whose latest Add replaced an entry
\* that was older than TTL
AgeResetWitness ==
    \E k \in DOMAIN entries :
        /\ revived[k]
        /\ rpc = "range" /\ k \notin todo
        /\ Age(k) < TTL

\* C14 (Reap removes exactly the stale entries): a sweep starts over all
\* the keys present, visits each once, deletes the key it visits when its
\* age is strictly greater than TTL and leaves it as it is otherwise,
\* touches no other entry, adds none, and ends only when no key is left
\* to visit.
ReapExact ==
    [][/\ (rpc = "sleep" /\ rpc' = "range") => (todo' = DOMAIN entries /\ entries' = entries)
       /\ (rpc = "range" /\ rpc' = "sleep") => (todo = {} /\ entries' = entries)
       /\ (rpc = "range" /\ rpc' = "range" /\ todo' # todo) =>
             \E k \in todo :
                 /\ todo' = todo \ {k}
                 /\ k \in DOMAIN entries
                 /\ entries' = IF Age(k) > TTL
                               THEN [x \in DOMAIN entries \ {k} |-> entries[x]]
                               ELSE entries
       /\ (rpc = "range" /\ rpc' = "range" /\ todo' = todo) => entries' = entries]_vars

\* a sweep over both keys has ended its loop having deleted the stale one
\* and kept the other
ReapExactWitness ==
    /\ rpc = "range" /\ todo = {}
    /\ \E k \in Keys : reaped[k] = "stale" /\ k \notin DOMAIN entries
    /\ \E k \in DOMAIN entries : Age(k) <= TTL /\ entries[k].createdAt < wakeAt

\* C16 (stale reads): Get decides on presence alone: it returns the
\* payload of every key present, whatever the entry's age, and returns
\* key-not-found for a key once added only after a sweep deleted it.
StaleRead ==
    \A t \in Callers :
        GetDone(t) =>
            /\ call[t].key \in DOMAIN entries
                  => ret[t] = Found(entries[call[t].key].data)
            /\ (ret[t] = NotFound /\ lastAdd[call[t].key] # {})
                  => reaped[call[t].key] # "no"

\* a Get returns the payload of an entry older than TTL while the reaper
\* sleeps before the sweep that will delete it
StaleReadWitness ==
    \E t \in Callers :
        /\ GetDone(t) /\ call[t].key \in DOMAIN entries
        /\ Age(call[t].key) > TTL
        /\ ret[t] = Found(<<1>>)
        /\ rpc = "sleep"

\* C19 (Add touches one key only): the body of Add(k, p) leaves the entry
\* of every other key as it is and removes none, and a key present becomes
\* absent only in a step of the reaper's range loop.
AddFrame ==
    [][/\ \A t \in Callers :
             (pc[t] = "body" /\ call[t].op = "Add" /\ pc'[t] = "unlock") =>
                 /\ DOMAIN entries' = DOMAIN entries \cup {call[t].key}
                 /\ \A k \in DOMAIN entries \ {call[t].key} : entries'[k] = entries[k]
       /\ \A k \in DOMAIN entries :
             k \notin DOMAIN entries' =>
                 /\ rpc = "range" /\ rpc' = "range" /\ k \in todo
                 /\ \A t \in Callers : pc'[t] = pc[t]]_vars

\* an Add has run while the other key holds an older entry
AddFrameWitness ==
    \E t \in Callers :
        /\ AddDone(t)
        /\ \E k \in DOMAIN entries \ {call[t].key} :
              entries[k].createdAt < entries[call[t].key].createdAt

\* C15 (reaper state machine): the reaper is sleeping or sweeping, starts
\* sleeping, goes from one only to the other, and never stops: under fair
\* scheduling every sleep that ends before the clock of the model stops is
\* followed by a sweep and every sweep by a sleep, whatever the callers do.
ReaperAlternates ==
    /\ rpc = "sleep"
    /\ [](rpc \in {"sleep", "range"})
    /\ [][rpc' # rpc => (mu' # mu /\ \A t \in Callers : pc'[t] = pc[t])]_vars
    /\ (rpc = "sleep" /\ wakeAt <= LiveTime) ~> (rpc = "range")
    /\ (rpc = "range") ~> (rpc = "sleep" /\ wakeAt = now + SweepInterval)

\* the reaper sleeps for the second time, after a sweep during which a
\* caller waited for the mutex
ReaperAlternatesWitness ==
    /\ rpc = "sleep" /\ wakeAt > 2 * SweepInterval
    /\ \E t \in Callers : waiting[t] # "no"

\* C18 (no deadlock, bounded wait): the mutex is held only by a caller
\* inside Add or Get or by the sweeping reaper, never by a caller that has
\* returned, and under fair scheduling every Add or Get that was called,
\* waiting for the mutex or inside it, returns.
NoDeadlock ==
    /\ [](mu <=> (rpc = "range" \/ \E t \in Callers : pc[t] # "idle"))
    /\ \A t \in Callers :
          (waiting[t] # "no" \/ pc[t] # "idle") ~> (waiting[t] = "no" /\ pc[t] = "idle")
    /\ \A t \in Callers : (waiting[t] # "no") ~> (pc[t] = "unlock")

\* a Get that missed is about to return while the other caller waits for
\* the mutex and the reaper's sleep has ended
NoDeadlockWitness ==
    \E t, u \in Callers :
        /\ GetDone(t) /\ ret[t] = NotFound
        /\ waiting[u] # "no"
        /\ rpc = "sleep" /\ now >= wakeAt

\* C11 (single reaper): the cache has exactly one running reaper, the one
\* NewCache started; no caller of the package's exported methods starts
\* another.
SingleReaper ==
    /\ rpc \in {"sleep", "range"}
    /\ rpc2 = "off"

\* the Pokemon the API knows under arg, a name or an id
Denotes(arg) == UnmarshalPokemon(Body(CatchURL(arg))).Name

\* C13 (inspect only what was caught): inspect, given the name or the id of
\* a Pokemon, returns no error if and only if a catch command has caught
\* that Pokemon.
InspectWhatWasCaught ==
    (stage = "prompt" /\ cur.cmd = "inspect" /\ cur.arg # NoParam)
        => (cmdErr = NilErr <=> Denotes(cur.arg) \in caught)

\* C17 (write-through memo protocol): a command reaches http.Get only from
\* its cache check, and only when the check missed; a hit hands the cached
\* payload to the process function with no fetch; a command makes at most
\* one fetch, and a fetch that succeeds leaves the response body cached
\* under the command's URL and hands that body to the process function; a
\* repeat of the request of a command that returned nil, while the entry
\* is still cached, makes no fetch.
MemoProtocol ==
    [][ /\ stage' = "fetch" => stage \in {"get", "fetch"}
        /\ (stage = "get" /\ stage' = "fetch") =>
              /\ cur.url \notin DOMAIN entries
              /\ fetches = 0 /\ fetches' = 1
              /\ entries' = entries
        /\ (stage = "get" /\ stage' = "prompt") =>
              /\ cur.url \in DOMAIN entries
              /\ processed' = entries[cur.url].data
              /\ cmdErr' = NilErr
              /\ fetches' = 0
              /\ entries' = entries
        /\ stage = "fetch" => fetches' = 1
        /\ (stage = "fetch" /\ stage' = "prompt" /\ cmdErr' = NilErr) =>
              /\ cur.url \in DOMAIN entries'
              /\ entries'[cur.url].data = Body(cur.url)
              /\ processed' = Body(cur.url)
        /\ (stage = "get" /\ stage' # "get" /\ again = "afterOk"
                /\ cur.url \in DOMAIN entries) =>
              stage' = "prompt" /\ fetches' = 0
      ]_vars

\* a command that repeats the request of the one before it has returned
\* after a hit
MemoProtocolWitness ==
    /\ stage = "prompt"
    /\ again = "afterOk"
    /\ fetches = 0
    /\ cmdErr = NilErr
    /\ cur.url \in DOMAIN entries
    /\ processed = Body(cur.url)

\* C20 (failed fetches are never cached): while a fetch is in flight its
\* URL is not cached; a fetch that fails in one of the three ways returns
\* the error and leaves the mapping as it was; a repeat of the request of
\* a command whose fetch failed misses again and fetches again.
FailedFetchNotCached ==
    [][ /\ stage = "fetch" => cur.url \notin DOMAIN entries
        /\ (stage = "fetch" /\ stage' = "prompt" /\ cmdErr' # NilErr) =>
              /\ cmdErr' \in FetchErrs
              /\ entries' = entries
              /\ cur.url \notin DOMAIN entries'
        /\ (stage = "get" /\ stage' # "get" /\ again = "afterFail") =>
              stage' = "fetch" /\ fetches' = 1
      ]_vars

\* the request of a command whose fetch failed is being fetched again
FailedFetchNotCachedWitness ==
    /\ stage = "fetch"
    /\ again = "afterFail"
    /\ cmdErr \in FetchErrs
    /\ fetches = 1
====
